---- MODULE Spec2Model ----
(***************************************************************************)
(* update_landing.py: overwrite one file with a literal string.            *)
(*                                                                         *)
(*     file_path   = '/Users/.../src/pages/ChatSQLLanding.tsx'             *)
(*     new_content = """..."""                                             *)
(*     with open(file_path, 'w') as f:                                     *)
(*         f.write(new_content)                                            *)
(*                                                                         *)
(* The state is the destination in the file system (its parent directory,  *)
(* the file and its bytes, the permissions in force, the free space), the  *)
(* text layer's settings (locale encoding, line separator) and the         *)
(* position of the script.  Text is a sequence of characters, a file is a  *)
(* sequence of bytes; writing encodes and reading decodes.                 *)
(***************************************************************************)
EXTENDS Integers, Sequences, FiniteSets, TLC

VARIABLES
    parentExists,   \* the directory of file_path exists
    parentWritable, \* the process may create entries in that directory
    fileExists,     \* a file exists at file_path
    fileWritable,   \* the process may open that file for writing
    fileBytes,      \* the bytes of the file (<<>> when absent)
    free,           \* bytes the file system can still take
    encoding,       \* the locale's preferred encoding, used by open()
    linesep,        \* what the text layer writes for "\n"
    pc,             \* position of the script
    handleOpen,     \* f holds an open descriptor
    todo,           \* encoded bytes f.write still has to hand to the OS
    buffer,         \* bytes held in f's buffer until close
    exc,            \* the exception in flight, "none" if none
    exitCode,       \* -1 while running, else the process exit status
    opened,         \* open() returned a handle in this run
    written,        \* f.write() returned normally in this run
    closedOk,       \* f.close() returned normally in this run
    opens,          \* calls of open() in this run
    writes,         \* calls of f.write() in this run
    runs,           \* runs started so far
    priorParent,    \* parentExists when this run started
    priorExists,    \* fileExists when this run started
    priorBytes,     \* fileBytes when this run started
    prevOk          \* the run before this one succeeded

vars == <<parentExists, parentWritable, fileExists, fileWritable, fileBytes,
          free, encoding, linesep, pc, handleOpen, todo, buffer, exc,
          exitCode, opened, written, closedOk, opens, writes, runs,
          priorParent, priorExists, priorBytes, prevOk>>

envVars == <<parentWritable, encoding, linesep>>
histVars == <<runs, priorParent, priorExists, priorBytes, prevOk>>

----------------------------------------------------------------------------
(* Bounds of the model. *)

\* longest content the destination holds before the first run
MaxPrior == 2
\* most free space at the start; the payload takes 4 to 7 bytes
MaxFree == 8
\* runs of the script in one behaviour
MaxRuns == 2
\* size of f's buffer, scaled down with the payload (8192 for a 16883-byte
\* payload in the program)
BufferSize == 2
\* the call counters stop counting here
CounterCap == 3

----------------------------------------------------------------------------
(* Text and bytes. *)

\* The payload by character class: the literal is ASCII text in lines ended
\* by "\n", with one non-ASCII character (U+00A9, in line 359), and it ends
\* with "\n".  It holds no "\r" and no backslash escape.
new_content == <<"a", "LF", "COPY", "LF">>

Encodings == {"utf-8", "latin-1", "ascii"}
LineSeps == {"LF", "CRLF"}
PriorByte == {"61", "78"}

Min(a, b) == IF a < b THEN a ELSE b

Bump(n) == IF n < CounterCap THEN n + 1 ELSE n

IsPrefix(s, t) == Len(s) <= Len(t) /\ SubSeq(t, 1, Len(s)) = s

Drop(s, n) == SubSeq(s, n + 1, Len(s))

\* str.encode on one character, after the text layer's newline translation
Encodable(c, enc) == ~(c = "COPY" /\ enc = "ascii")

EncodeChar(c, enc, nl) ==
    CASE c = "LF"   -> IF nl = "CRLF" THEN <<"0D", "0A">> ELSE <<"0A">>
      [] c = "CR"   -> <<"0D">>
      [] c = "COPY" -> IF enc = "utf-8" THEN <<"C2", "A9">> ELSE <<"A9">>
      [] c = "x"    -> <<"78">>
      [] OTHER      -> <<"61">>

RECURSIVE EncodeBytes(_, _, _)
EncodeBytes(text, enc, nl) ==
    IF text = <<>> THEN <<>>
    ELSE EncodeChar(Head(text), enc, nl) \o EncodeBytes(Tail(text), enc, nl)

\* what TextIOWrapper.write makes of a string: the encoded bytes, or
\* UnicodeEncodeError when a character has no encoding
Encode(text, enc, nl) ==
    [ok    |-> \A i \in 1..Len(text) : Encodable(text[i], enc),
     bytes |-> EncodeBytes(text, enc, nl)]

\* bytes.decode: the characters, with "BAD" where the bytes are not valid
RECURSIVE DecodeBytes(_, _)
DecodeBytes(bytes, enc) ==
    IF bytes = <<>> THEN <<>>
    ELSE LET b == Head(bytes) IN
         CASE b = "61" -> <<"a">> \o DecodeBytes(Tail(bytes), enc)
           [] b = "78" -> <<"x">> \o DecodeBytes(Tail(bytes), enc)
           [] b = "0A" -> <<"LF">> \o DecodeBytes(Tail(bytes), enc)
           [] b = "0D" -> <<"CR">> \o DecodeBytes(Tail(bytes), enc)
           [] b = "C2" ->
                IF enc = "utf-8"
                THEN IF Len(bytes) >= 2 /\ bytes[2] = "A9"
                     THEN <<"COPY">> \o DecodeBytes(Drop(bytes, 2), enc)
                     ELSE <<"BAD">> \o DecodeBytes(Tail(bytes), enc)
                ELSE IF enc = "latin-1"
                     THEN <<"ACIRC">> \o DecodeBytes(Tail(bytes), enc)
                     ELSE <<"BAD">> \o DecodeBytes(Tail(bytes), enc)
           [] OTHER ->
                IF enc = "latin-1"
                THEN <<"COPY">> \o DecodeBytes(Tail(bytes), enc)
                ELSE <<"BAD">> \o DecodeBytes(Tail(bytes), enc)

\* universal newlines on reading: "\r\n" and "\r" are read as "\n"
RECURSIVE Newlines(_)
Newlines(text) ==
    IF text = <<>> THEN <<>>
    ELSE IF Head(text) = "CR"
         THEN IF Len(text) >= 2 /\ text[2] = "LF"
              THEN <<"LF">> \o Newlines(Drop(text, 2))
              ELSE <<"LF">> \o Newlines(Tail(text))
         ELSE <<Head(text)>> \o Newlines(Tail(text))

\* open(file_path).read() with the same locale
ReadText(bytes, enc) == Newlines(DecodeBytes(bytes, enc))

----------------------------------------------------------------------------
(* The script. *)

\* the mode of open(file_path, 'w')
OpenModeAppend == "a"

OpenMode == "w"

\* what open() leaves of the bytes of an existing file
OpenedBytes(bytes) == IF OpenMode = "w" THEN <<>> ELSE bytes

\* open() may create the destination: the directory stands and takes entries
CanCreateAnywhere == TRUE

CanCreate == parentExists /\ parentWritable

\* open() may proceed on the destination as it is
CanOpenUnchecked == parentExists

CanOpen == IF fileExists THEN fileWritable ELSE CanCreate

\* the error open() raises when it may not proceed
OpenError ==
    IF ~parentExists THEN "FileNotFoundError"
    ELSE IF ~CanOpen THEN "PermissionError"
    ELSE "OSError"

\* where control goes when the body of the with statement raises: the
\* with statement runs f.__exit__, which closes f
OnBodyExceptionNoWith == "exit"

OnBodyException == "close"

\* where control goes when open() raises: nothing catches it
OnOpenErrorRetry == "open"

OnOpenError == "exit"

\* the interpreter's exit status: 1 for an uncaught exception
ExitStatusSwallowed(e) == 0

ExitStatus(e) == IF e = "none" THEN 0 ELSE 1

Init ==
    /\ parentExists \in BOOLEAN
    /\ parentWritable \in (IF parentExists THEN BOOLEAN ELSE {FALSE})
    /\ fileExists \in (IF parentExists THEN BOOLEAN ELSE {FALSE})
    /\ fileWritable \in (IF fileExists THEN BOOLEAN ELSE {FALSE})
    /\ fileBytes \in (IF fileExists
                      THEN UNION {[1..n -> PriorByte] : n \in 0..MaxPrior}
                      ELSE {<<>>})
    /\ free \in 0..MaxFree
    /\ encoding \in Encodings
    /\ linesep \in LineSeps
    /\ pc = "idle"
    /\ handleOpen = FALSE
    /\ todo = <<>>
    /\ buffer = <<>>
    /\ exc = "none"
    /\ exitCode = -1
    /\ opened = FALSE
    /\ written = FALSE
    /\ closedOk = FALSE
    /\ opens = 0
    /\ writes = 0
    /\ runs = 0
    /\ priorParent = parentExists
    /\ priorExists = fileExists
    /\ priorBytes = fileBytes
    /\ prevOk = FALSE

\* the run that just ended succeeded
Succeeded == pc = "exited" /\ opened /\ written /\ closedOk

\* the process starts: the two constants are bound (lines 4 and 6)
Start ==
    /\ pc \in {"idle", "exited"}
    /\ runs < MaxRuns
    /\ runs' = runs + 1
    /\ prevOk' = Succeeded
    /\ priorParent' = parentExists
    /\ priorExists' = fileExists
    /\ priorBytes' = fileBytes
    /\ pc' = "open"
    /\ exc' = "none"
    /\ exitCode' = -1
    /\ opened' = FALSE
    /\ written' = FALSE
    /\ closedOk' = FALSE
    /\ opens' = 0
    /\ writes' = 0
    /\ todo' = <<>>
    /\ buffer' = <<>>
    /\ UNCHANGED <<parentExists, fileExists, fileWritable, fileBytes, free,
                   handleOpen, envVars>>

\* open(file_path, 'w') returns a handle: the file is created if absent
\* and cut to nothing if present
Open ==
    /\ pc = "open"
    /\ CanOpen
    /\ opens' = Bump(opens)
    /\ fileExists' = TRUE
    /\ fileBytes' = IF fileExists THEN OpenedBytes(fileBytes) ELSE <<>>
    /\ free' = free + (Len(fileBytes) - Len(fileBytes'))
    /\ IF fileExists
       THEN fileWritable' = fileWritable
       ELSE fileWritable' \in BOOLEAN      \* the umask decides
    /\ handleOpen' = TRUE
    /\ opened' = TRUE
    /\ pc' = "write"
    /\ UNCHANGED <<parentExists, todo, buffer, exc, exitCode, written,
                   closedOk, writes, envVars, histVars>>

\* open() raises: no such directory, no permission, or another OS error
\* (too many open files, a read-only file system, ...)
OpenFail ==
    /\ pc = "open"
    /\ opens' = Bump(opens)
    /\ exc' = OpenError
    /\ pc' = OnOpenError
    /\ UNCHANGED <<parentExists, fileExists, fileWritable, fileBytes, free,
                   handleOpen, todo, buffer, exitCode, opened, written,
                   closedOk, writes, envVars, histVars>>

\* f.write(new_content) is called: the text layer encodes the whole string;
\* bytes that fit the buffer stay there, more than that goes to the OS
Write ==
    /\ pc = "write"
    /\ writes' = Bump(writes)
    /\ LET e == Encode(new_content, encoding, linesep) IN
       IF ~e.ok
       THEN /\ exc' = "UnicodeEncodeError"
            /\ pc' = OnBodyException
            /\ UNCHANGED <<todo, buffer, written>>
       ELSE IF Len(e.bytes) <= BufferSize
            THEN /\ buffer' = e.bytes
                 /\ written' = TRUE
                 /\ pc' = "close"
                 /\ UNCHANGED <<todo, exc>>
            ELSE /\ todo' = e.bytes
                 /\ pc' = "rawwrite"
                 /\ UNCHANGED <<buffer, written, exc>>
    /\ UNCHANGED <<parentExists, fileExists, fileWritable, fileBytes, free,
                   handleOpen, exitCode, opened, closedOk, opens, envVars,
                   histVars>>

\* one write(2) inside f.write: the OS takes some or all of the bytes; once
\* no more than a buffer is left, f.write keeps it in the buffer and returns
RawWrite ==
    /\ pc = "rawwrite"
    /\ \E n \in 1..Min(Len(todo), free) :
         LET rest == Drop(todo, n) IN
         /\ fileBytes' = fileBytes \o SubSeq(todo, 1, n)
         /\ free' = free - n
         /\ IF Len(rest) <= BufferSize
            THEN /\ buffer' = rest
                 /\ todo' = <<>>
                 /\ written' = TRUE
                 /\ pc' = "close"
            ELSE /\ todo' = rest
                 /\ UNCHANGED <<buffer, written, pc>>
    /\ UNCHANGED <<parentExists, fileExists, fileWritable, handleOpen, exc,
                   exitCode, opened, closedOk, opens, writes, envVars,
                   histVars>>

\* write(2) fails inside f.write: no space left, or another I/O error
RawWriteFail ==
    /\ pc = "rawwrite"
    /\ exc' = "OSError"
    /\ todo' = <<>>
    /\ pc' = OnBodyException
    /\ UNCHANGED <<parentExists, fileExists, fileWritable, fileBytes, free,
                   handleOpen, buffer, exitCode, opened, written, closedOk,
                   opens, writes, envVars, histVars>>

\* f.close(), from the with statement: one write(2) of the flush
Flush ==
    /\ pc = "close"
    /\ buffer # <<>>
    /\ \E n \in 1..Min(Len(buffer), free) :
         /\ fileBytes' = fileBytes \o SubSeq(buffer, 1, n)
         /\ buffer' = Drop(buffer, n)
         /\ free' = free - n
    /\ UNCHANGED <<parentExists, fileExists, fileWritable, handleOpen, todo,
                   exc, exitCode, opened, written, closedOk, opens, writes,
                   pc, envVars, histVars>>

\* f.close(): the flush fails; the descriptor is closed all the same and
\* the error is raised
FlushFail ==
    /\ pc = "close"
    /\ buffer # <<>>
    /\ buffer' = <<>>
    /\ handleOpen' = FALSE
    /\ closedOk' = FALSE
    /\ exc' = "OSError"
    /\ pc' = "exit"
    /\ UNCHANGED <<parentExists, fileExists, fileWritable, fileBytes, free,
                   todo, exitCode, opened, written, opens, writes, envVars,
                   histVars>>

\* f.close(): nothing left to flush, the descriptor is closed; close(2)
\* may report an error, the descriptor is gone either way
Close ==
    /\ pc = "close"
    /\ buffer = <<>>
    /\ handleOpen' = FALSE
    /\ \E ok \in BOOLEAN :
         /\ closedOk' = ok
         /\ exc' = IF ok THEN exc ELSE "OSError"
    /\ pc' = "exit"
    /\ UNCHANGED <<parentExists, fileExists, fileWritable, fileBytes, free,
                   todo, buffer, exitCode, opened, written, opens, writes,
                   envVars, histVars>>

\* the end of the script, or the uncaught exception, ends the process
Exit ==
    /\ pc = "exit"
    /\ exitCode' = ExitStatus(exc)
    /\ pc' = "exited"
    /\ UNCHANGED <<parentExists, fileExists, fileWritable, fileBytes, free,
                   handleOpen, todo, buffer, exc, opened, written, closedOk,
                   opens, writes, envVars, histVars>>

Step ==
    \/ Open
    \/ OpenFail
    \/ Write
    \/ RawWrite
    \/ RawWriteFail
    \/ Flush
    \/ FlushFail
    \/ Close
    \/ Exit

Next ==
    \/ Start
    \/ Step

Spec == Init /\ [][Next]_vars

\* the interpreter runs the script on; nothing makes anyone start a run
FairSpec == Spec /\ WF_vars(Step)

----------------------------------------------------------------------------
(* Properties. *)

\* the payload as the text layer of this platform encodes it
EncodedPayload == Encode(new_content, encoding, linesep)

\* the destination is as it was when the run started
SameAsPrior == fileExists = priorExists /\ fileBytes = priorBytes

\* when the run started the process could not write the destination: the
\* file was there without write permission, or was not there and its
\* directory took no new entries
NotWritableAtStart ==
    priorParent /\ (IF priorExists THEN ~fileWritable ELSE ~parentWritable)

\* C1 (Exactness): after a run in which open, write and close all succeeded,
\* reading the destination gives exactly the payload text.
C1_Exactness ==
    Succeeded => fileExists /\ ReadText(fileBytes, encoding) = new_content

C1_Witness ==
    /\ Succeeded
    /\ encoding = "utf-8"
    /\ linesep = "CRLF"
    /\ Len(fileBytes) = 7

\* C2 (Destructiveness): if the destination held content C other than the
\* payload when the run started, then after a successful run it holds the
\* payload's bytes and nothing else: it is not C and is no longer than the
\* payload.
C2_Destructiveness ==
    Succeeded /\ priorExists /\ priorBytes # EncodedPayload.bytes
        => /\ fileBytes = EncodedPayload.bytes
           /\ fileBytes # priorBytes
           /\ Len(fileBytes) = Len(EncodedPayload.bytes)

C2_Witness ==
    /\ Succeeded
    /\ priorExists
    /\ priorBytes = <<"78", "61">>
    /\ fileBytes # priorBytes

\* C3 (Idempotence): when a successful run follows a successful run, the
\* content after the second is the content after the first, and both read
\* as the payload.
C3_Idempotence ==
    Succeeded /\ prevOk
        => /\ priorExists
           /\ ReadText(priorBytes, encoding) = new_content
           /\ fileBytes = priorBytes
           /\ ReadText(fileBytes, encoding) = new_content

C3_Witness == Succeeded /\ prevOk /\ runs = 2

\* C4 (Failure on permission denial): if the process could not write the
\* destination when the run started, open never returns a handle, the
\* destination stays as it was (not truncated, not created), and the
\* process ends with a non-zero status.
C4_PermissionDenied ==
    pc # "idle" /\ NotWritableAtStart
        => /\ ~opened
           /\ SameAsPrior
           /\ (pc = "exited" => exitCode # 0)

C4_Witness ==
    /\ pc = "exited"
    /\ NotWritableAtStart
    /\ priorExists
    /\ priorBytes # <<>>
    /\ exc = "PermissionError"

\* C5 (Failure on missing parent): if the directory of the destination did
\* not exist when the run started, open never returns a handle, the
\* directory is not created, no file appears at the destination, and the
\* process ends with a non-zero status.
C5_MissingParent ==
    pc # "idle" /\ ~priorParent
        => /\ ~opened
           /\ ~parentExists
           /\ ~fileExists
           /\ (pc = "exited" => exitCode # 0)

C5_Witness ==
    /\ pc = "exited"
    /\ ~priorParent
    /\ exc = "FileNotFoundError"

\* C6 (Scoped handle release): the handle is open only from the return of
\* open() to the end of close(); wherever the run ends, also after a write
\* that raised partway, no handle is open.
C6_HandleScoped ==
    /\ handleOpen => pc \in {"write", "rawwrite", "close"}
    /\ pc \in {"exit", "exited"} => ~handleOpen

C6_Witness ==
    /\ pc = "exited"
    /\ opened
    /\ ~written
    /\ exc = "OSError"
    /\ fileBytes # <<>>
    /\ fileBytes # EncodedPayload.bytes

\* C7 (Exit status): the process ends with status 0 exactly when open,
\* write and close all succeeded; with an exception in flight it ends with
\* a non-zero status.
C7_ExitStatus ==
    pc = "exited"
        => /\ exitCode \in {0, 1}
           /\ (exitCode = 0) <=> (opened /\ written /\ closedOk)
           /\ exc # "none" => exitCode # 0

C7_Witness ==
    /\ pc = "exited"
    /\ exitCode = 1
    /\ opened
    /\ written
    /\ ~closedOk

\* C8 as stated (Single transition): from the start of a run on, the
\* destination is either as it was before the run or reads as the whole
\* payload.
C8_NoIntermediateState ==
    pc # "idle"
        => \/ SameAsPrior
           \/ fileExists /\ ReadText(fileBytes, encoding) = new_content

\* a step of the overwrite, as the destination shows it
FileStep ==
    \/ UNCHANGED <<fileExists, fileBytes>>
    \/ /\ pc = "open"
       /\ fileExists'
       /\ fileBytes' = <<>>
    \/ /\ fileExists /\ fileExists'
       /\ Len(fileBytes') > Len(fileBytes)
       /\ IsPrefix(fileBytes, fileBytes')
       /\ EncodedPayload.ok
       /\ IsPrefix(fileBytes', EncodedPayload.bytes)

\* C8 as amended: the destination changes only by open() leaving it empty
\* (created or truncated) and then by appends that keep it a prefix of the
\* encoded payload; between the prior content and the whole payload an
\* observer can see the empty file and proper prefixes of the payload.
C8_StepwiseOverwrite == [][FileStep]_vars

C8_Witness ==
    /\ pc = "rawwrite"
    /\ priorExists
    /\ priorBytes # <<>>
    /\ fileBytes # <<>>
    /\ fileBytes # priorBytes
    /\ fileBytes # EncodedPayload.bytes

\* C9 (Bounded damage on failure): in every state the destination is absent,
\* or as it was before the run, or empty, or holds a prefix of the encoded
\* payload (the whole of it included).
C9_BoundedDamage ==
    \/ ~fileExists
    \/ SameAsPrior
    \/ fileBytes = <<>>
    \/ EncodedPayload.ok /\ IsPrefix(fileBytes, EncodedPayload.bytes)

C9_Witness ==
    /\ pc = "exited"
    /\ exitCode = 1
    /\ priorExists
    /\ priorBytes = <<"78">>
    /\ Len(fileBytes) = 3
    /\ fileBytes # EncodedPayload.bytes

\* C10 (Termination without retry): a run calls open() at most once and
\* f.write() at most once, and every run that starts ends.
C10_TerminatesWithoutRetry ==
    /\ [](opens <= 1 /\ writes <= 1)
    /\ [](pc \in {"open", "write", "rawwrite", "close", "exit"}
            => <>(pc = "exited"))

C10_Witness ==
    /\ pc = "exited"
    /\ opens = 1
    /\ writes = 1
    /\ ~written
    /\ exc = "OSError"

====
